---- MODULE Spec2Model ----
(***************************************************************************)
(* metadata_3mf: the `add` subcommand of src/main.rs.                      *)
(*                                                                         *)
(* Two specifications share the operators that model the merge:            *)
(*   MergeSpec  applies update_xml_and_copy's merge to drawn XML trees     *)
(*              (once, then a second time on its own output);              *)
(*   Spec       is main(): load and validate the metadata file, then for   *)
(*              each input file open the archive, create the destination   *)
(*              and stream every entry into it.                            *)
(*                                                                         *)
(* XML nodes are records: kind is the XMLNode variant, tag the element     *)
(* name, name the value of the "name" attribute (NoAttr when the element   *)
(* has none) and val stands for the rest of the element (its other         *)
(* attributes and its children).                                           *)
(***************************************************************************)
EXTENDS Naturals, Sequences, FiniteSets

\* ---------------------------------------------------------------- bounds
MaxModelChildren == 3   \* children of a model root drawn by MergeSpec
MaxInjected == 2        \* children of the metadata document's root
MaxEntries == 2         \* entries of an input archive
MaxFiles == 2           \* input files on the command line

\* ------------------------------------------------------------ XML values
NoAttr == "<no name attribute>"

Elem(tag, name, val) == [kind |-> "Element", tag |-> tag, name |-> name, val |-> val]

TextNode(val) == [kind |-> "Text", tag |-> "", name |-> NoAttr, val |-> val]

\* Option<T>: None is the empty sequence, Some(x) the one-element sequence.
None == <<>>

Some(x) == <<x>>

Geom == Elem("object", NoAttr, "mesh")

Blank == TextNode("ws")

\* children a model document's root may have
ModelNodes ==
    { Geom, Blank,
      Elem("metadata", "Title", "Old"), Elem("metadata", "Title", "New"),
      Elem("metadata", "Author", "A"), Elem("metadata", NoAttr, "A") }

\* metadata elements a metadata document's root may have
InjectedNodes ==
    { Elem("metadata", "Title", "New"), Elem("metadata", "Title", "Old"),
      Elem("metadata", "Author", "New"), Elem("metadata", NoAttr, "New") }

\* children the root of the metadata file read by main() may have
MetaFileNodes ==
    { Elem("metadata", "Title", "New"), Elem("metadata", NoAttr, "New"),
      Blank, Elem("license", NoAttr, "cc") }

SeqsUpTo(S, n) == UNION { [1..k -> S] : k \in 0..n }

\* the title main() computes: file stem followed by the suffix (one stem
\* stands for every input file)
StemWithSuffix == "part_licensed"

\* ------------------------------------------------------- the key map
\* a map whose insert keeps the entry already present for the key
InsertKeepsFirst(map, key, node) ==
    [k \in (DOMAIN map) \cup {key} |-> IF k \in DOMAIN map THEN map[k] ELSE node]

\* HashMap::insert: the later insertion for a key overwrites the earlier one
Insert(map, key, node) ==
    [k \in (DOMAIN map) \cup {key} |-> IF k = key THEN node ELSE map[k]]

\* element.attributes["name"]: indexing a missing key panics
HasNameAttr(element) == element.name # NoAttr

IsMetadata(child) == child.kind = "Element" /\ child.tag = "metadata"

EmptyMap == [panicked |-> FALSE, map |-> <<>>, other |-> <<>>]

RECURSIVE add_metadata_to_hashmap(_, _)
add_metadata_to_hashmap(st, children) ==
    IF st.panicked \/ children = <<>> THEN st
    ELSE LET child == Head(children) IN
         IF child.kind # "Element" \/ ~HasNameAttr(child)
         THEN [st EXCEPT !.panicked = TRUE]
         ELSE add_metadata_to_hashmap(
                  [st EXCEPT !.map = Insert(st.map, child.name, child)],
                  Tail(children))

\* the filter_map over the model's children: metadata elements go to the
\* map, everything else is kept, in order, in other_elements
RECURSIVE filter_map(_, _)
filter_map(st, children) ==
    IF st.panicked \/ children = <<>> THEN st
    ELSE LET child == Head(children) IN
         IF IsMetadata(child)
         THEN IF ~HasNameAttr(child)
              THEN [st EXCEPT !.panicked = TRUE]
              ELSE filter_map([st EXCEPT !.map = Insert(st.map, child.name, child)],
                              Tail(children))
         ELSE filter_map([st EXCEPT !.other = Append(st.other, child)],
                         Tail(children))

\* the synthesized title element: attribute name="Title", one text child
title_element(title) == Elem("metadata", "Title", title)

\* a title that does not replace a Title entry already in the map
set_title_if_absent(st, title) ==
    IF title = None \/ st.panicked \/ "Title" \in DOMAIN st.map THEN st
    ELSE [st EXCEPT !.map = Insert(st.map, "Title", title_element(title[1]))]

set_title(st, title) ==
    IF title = None \/ st.panicked THEN st
    ELSE [st EXCEPT !.map = Insert(st.map, "Title", title_element(title[1]))]

\* full replace: the model's own metadata is forgotten when not kept
metadata_map_full_replace(children, metadata, keep, title) ==
    LET s1 == IF keep THEN add_metadata_to_hashmap(EmptyMap, metadata) ELSE EmptyMap
        s2 == filter_map(s1, children)
        s3 == IF ~keep
              THEN add_metadata_to_hashmap([s2 EXCEPT !.map = <<>>], metadata)
              ELSE s2
    IN  set_title(s3, title)

\* the map and other_elements as update_xml_and_copy builds them
metadata_map(children, metadata, keep, title) ==
    LET s1 == IF keep THEN add_metadata_to_hashmap(EmptyMap, metadata) ELSE EmptyMap
        s2 == filter_map(s1, children)
        s3 == IF ~keep THEN add_metadata_to_hashmap(s2, metadata) ELSE s2
    IN  set_title(s3, title)

Orderings(S) ==
    { p \in [1..Cardinality(S) -> S] :
        \A i, j \in 1..Cardinality(S) : i # j => p[i] # p[j] }

\* HashMap::into_values: the values in an arbitrary order (std's HashMap
\* is seeded per process, so any order of the keys can come out)
into_values(map) ==
    { [i \in 1..Cardinality(DOMAIN map) |-> map[p[i]]] : p \in Orderings(DOMAIN map) }

\* the other elements pushed before the metadata block
emit_other_first(st) == { st.other \o block : block \in into_values(st.map) }

\* the child lists xml.children can end up holding
emit(st) == { block \o st.other : block \in into_values(st.map) }

update_xml_and_copy(children, metadata, keep, title) ==
    LET st == metadata_map(children, metadata, keep, title)
    IN  [panicked |-> st.panicked,
         outs |-> IF st.panicked THEN {} ELSE emit(st)]

\* ----------------------------------------------------------------- state
VARIABLES
    pc,             \* where main() is
    meta_file,      \* the metadata file on disk: status, root tag, children
    metadata_xml,   \* add.metadata_xml: the children of the parsed v1 root
    keep_existing,  \* add.keep_existing
    title,          \* add.title
    title_value,    \* add.title_value
    n_files,        \* number of input files
    file_idx,       \* input files the loop has dealt with
    input,          \* entries of the archive being read
    file_number,    \* entries of `input` already processed
    output,         \* entries written to the destination so far
    writer,         \* state of the destination ZipWriter
    opened,         \* input archives opened so far
    created,        \* output files created so far
    model_children, \* MergeSpec: children of the model root
    pass,           \* MergeSpec: merges done
    merged,         \* MergeSpec: children after the first merge
    remerged        \* MergeSpec: children after the second merge

vars == << pc, meta_file, metadata_xml, keep_existing, title, title_value,
           n_files, file_idx, input, file_number, output, writer, opened,
           created, model_children, pass, merged, remerged >>

mainVars == << pc, meta_file, title, n_files, file_idx, input, file_number,
               output, writer, opened, created >>

mergeVars == << model_children, pass, merged, remerged >>

\* ---------------------------------------------------------- the archive
\* an archive entry's payload: an XML document (wellformed, with the
\* children of its root) or bytes that do not parse as XML
Xml(children) == [wellformed |-> TRUE, children |-> children]

Opaque == [wellformed |-> FALSE, children |-> <<>>]

ModelName == "3D/3dmodel.model"

ThumbName == "Metadata/thumbnail.png"

EscapingName == "../evil.model"

\* ZipFile::enclosed_name: None for a name that leaves the extraction
\* root, else the stored name as a path
enclosed_name(name) == IF name = EscapingName THEN None ELSE Some(name)

\* Path::extension
extension(path) == IF path \in { ModelName, EscapingName } THEN Some("model")
                   ELSE Some("png")

\* the guard of the first match arm, without the enclosed_name test
IsModelByExtension(entry) == extension(entry.name) = Some("model")

\* Some(path) if path.extension() == Some(OsStr::new("model"))
IsModelEntry(entry) ==
    /\ enclosed_name(entry.name) # None
    /\ extension(enclosed_name(entry.name)[1]) = Some("model")

ModelParts ==
    { Opaque, Xml(<< >>), Xml(<< Geom >>),
      Xml(<< Elem("metadata", "Title", "Old"), Geom >>),
      Xml(<< Elem("metadata", NoAttr, "A") >>) }

Entries ==
    { [name |-> ModelName, data |-> d] : d \in ModelParts }
        \cup { [name |-> ThumbName, data |-> Opaque],
               [name |-> EscapingName, data |-> Xml(<< Geom >>)] }

Archives == SeqsUpTo(Entries, MaxEntries)

\* ZipWriter::raw_copy_file: name and compressed bytes as they are
raw_copy_file(entry) == [name |-> entry.name, kind |-> "raw", data |-> entry.data]

\* start_file(&file_name, ..) followed by xml.write_with_config
merged_file(entry, children) ==
    [name |-> enclosed_name(entry.name)[1], kind |-> "merged", data |-> Xml(children)]

\* a raw copy made whether or not the entry was updated
copy_always(entry, updated) == << raw_copy_file(entry) >>

\* if !updated { by_index_raw; raw_copy_file }
copy_unless_updated(entry, updated) ==
    IF updated THEN << >> ELSE << raw_copy_file(entry) >>

\* ------------------------------------------------------------------ main
MetaFiles ==
    { [status |-> st, root |-> "", children |-> << >>] : st \in { "missing", "malformed" } }
        \cup { [status |-> "parsed", root |-> r, children |-> c] :
                 r \in { "v1", "v2" }, c \in SeqsUpTo(MetaFileNodes, MaxInjected) }

Init ==
    /\ pc = "load"
    /\ meta_file \in MetaFiles
    /\ metadata_xml = None
    /\ keep_existing \in BOOLEAN
    /\ title \in BOOLEAN
    /\ title_value = None
    /\ n_files = MaxFiles
    /\ file_idx = 0
    /\ input = << >>
    /\ file_number = 0
    /\ output = << >>
    /\ writer = "None"
    /\ opened = 0
    /\ created = 0
    /\ model_children = << >>
    /\ pass = 0
    /\ merged = << >>
    /\ remerged = << >>

\* what a panic leaves of the destination writer: unwinding drops the
\* ZipWriter, whose Drop writes the central directory; with panic=abort
\* nothing runs and the file stays without one
AfterPanic(w) == IF w \in { "Opened", "Streaming" } THEN { "Finalized", "Unfinished" }
                 ELSE { w }

\* the checks of the metadata file, in the order main() makes them
LoadMetadata ==
    /\ pc = "load"
    /\ IF meta_file.status # "parsed"
       THEN pc' = "panicked" /\ UNCHANGED metadata_xml
       ELSE IF meta_file.root # "v1"
       THEN pc' = "exit1" /\ UNCHANGED metadata_xml
       ELSE IF \E i \in 1..Len(meta_file.children) : ~IsMetadata(meta_file.children[i])
       THEN pc' = "exit1" /\ UNCHANGED metadata_xml
       ELSE IF ~ \E i \in 1..Len(meta_file.children) : IsMetadata(meta_file.children[i])
       THEN pc' = "exit1" /\ UNCHANGED metadata_xml
       ELSE pc' = "next_file" /\ metadata_xml' = meta_file.children
    /\ UNCHANGED << meta_file, keep_existing, title, title_value, n_files, file_idx,
                    input, file_number, output, writer, opened, created >>
    /\ UNCHANGED mergeVars

\* the stem already ends with the suffix: continue with the next file
SkipFile ==
    /\ pc = "next_file"
    /\ file_idx < n_files
    /\ file_idx' = file_idx + 1
    /\ UNCHANGED << pc, meta_file, metadata_xml, keep_existing, title, title_value,
                    n_files, input, file_number, output, writer, opened, created >>
    /\ UNCHANGED mergeVars

\* exit(1): the path does not exist or is no file, or the output path
\* exists and --force was not given (title_value is set before that test)
RejectFile ==
    /\ pc = "next_file"
    /\ file_idx < n_files
    /\ \E collision \in BOOLEAN :
          title_value' = IF collision /\ title THEN Some(StemWithSuffix) ELSE title_value
    /\ pc' = "exit1"
    /\ UNCHANGED << meta_file, metadata_xml, keep_existing, title, n_files, file_idx,
                    input, file_number, output, writer, opened, created >>
    /\ UNCHANGED mergeVars

\* File::open or ZipArchive::new fails
OpenInputFails ==
    /\ pc = "next_file"
    /\ file_idx < n_files
    /\ title_value' = IF title THEN Some(StemWithSuffix) ELSE title_value
    /\ pc' = "panicked"
    /\ UNCHANGED << meta_file, metadata_xml, keep_existing, title, n_files, file_idx,
                    input, file_number, output, writer, opened, created >>
    /\ UNCHANGED mergeVars

\* the input path passes every test and the archive is opened
OpenInput ==
    /\ pc = "next_file"
    /\ file_idx < n_files
    /\ title_value' = IF title THEN Some(StemWithSuffix) ELSE title_value
    /\ input' \in Archives
    /\ opened' = opened + 1
    /\ file_number' = 0
    /\ output' = << >>
    /\ writer' = "None"
    /\ pc' = "create_output"
    /\ UNCHANGED << meta_file, metadata_xml, keep_existing, title, n_files, file_idx,
                    created >>
    /\ UNCHANGED mergeVars

\* File::create fails
CreateOutputFails ==
    /\ pc = "create_output"
    /\ pc' = "panicked"
    /\ UNCHANGED << meta_file, metadata_xml, keep_existing, title, title_value, n_files,
                    file_idx, input, file_number, output, writer, opened, created >>
    /\ UNCHANGED mergeVars

\* File::create and ZipWriter::new
CreateOutput ==
    /\ pc = "create_output"
    /\ created' = created + 1
    /\ writer' = "Opened"
    /\ pc' = "streaming"
    /\ UNCHANGED << meta_file, metadata_xml, keep_existing, title, title_value, n_files,
                    file_idx, input, file_number, output, opened >>
    /\ UNCHANGED mergeVars

\* one iteration of `for file_number in 0..input.len()`; a panic inside
\* update_xml_and_copy is told apart from the other panics
CopyEntry ==
    /\ pc = "streaming"
    /\ file_number < Len(input)
    /\ LET entry == input[file_number + 1]
           r == update_xml_and_copy(entry.data.children, metadata_xml, keep_existing,
                                    title_value)
       IN  IF IsModelEntry(entry)
           THEN IF \/ enclosed_name(entry.name) = None   \* file_name: unwrap
                   \/ ~entry.data.wellformed             \* Element::parse: unwrap
                   \/ r.panicked                         \* attributes["name"]
                THEN /\ pc' = "panicked_in_update"
                     /\ writer' \in AfterPanic(writer)
                     /\ UNCHANGED << output, file_number >>
                ELSE /\ \E children \in r.outs :
                          output' = (output \o << merged_file(entry, children) >>)
                                        \o copy_unless_updated(entry, TRUE)
                     /\ file_number' = file_number + 1
                     /\ writer' = "Streaming"
                     /\ pc' = pc
           ELSE /\ output' = output \o copy_unless_updated(entry, FALSE)
                /\ file_number' = file_number + 1
                /\ writer' = "Streaming"
                /\ pc' = pc
    /\ UNCHANGED << meta_file, metadata_xml, keep_existing, title, title_value, n_files,
                    file_idx, input, opened, created >>
    /\ UNCHANGED mergeVars

\* by_index, by_index_raw, start_file, the XML write or raw_copy_file fails
CopyEntryFails ==
    /\ pc = "streaming"
    /\ file_number < Len(input)
    /\ pc' = "panicked"
    /\ writer' \in AfterPanic(writer)
    /\ UNCHANGED << meta_file, metadata_xml, keep_existing, title, title_value, n_files,
                    file_idx, input, file_number, output, opened, created >>
    /\ UNCHANGED mergeVars

\* output.finish() after the loop
FinishFile ==
    /\ pc = "streaming"
    /\ file_number = Len(input)
    /\ writer' = "Finalized"
    /\ file_idx' = file_idx + 1
    /\ pc' = "next_file"
    /\ UNCHANGED << meta_file, metadata_xml, keep_existing, title, title_value, n_files,
                    input, file_number, output, opened, created >>
    /\ UNCHANGED mergeVars

\* output.finish() fails
FinishFileFails ==
    /\ pc = "streaming"
    /\ file_number = Len(input)
    /\ pc' = "panicked"
    /\ writer' \in AfterPanic(writer)
    /\ UNCHANGED << meta_file, metadata_xml, keep_existing, title, title_value, n_files,
                    file_idx, input, file_number, output, opened, created >>
    /\ UNCHANGED mergeVars

\* the loop over the input files ends and main returns
Return ==
    /\ pc = "next_file"
    /\ file_idx = n_files
    /\ pc' = "done"
    /\ UNCHANGED << meta_file, metadata_xml, keep_existing, title, title_value, n_files,
                    file_idx, input, file_number, output, writer, opened, created >>
    /\ UNCHANGED mergeVars

Next ==
    \/ LoadMetadata
    \/ SkipFile
    \/ RejectFile
    \/ OpenInputFails
    \/ OpenInput
    \/ CreateOutputFails
    \/ CreateOutput
    \/ CopyEntry
    \/ CopyEntryFails
    \/ FinishFile
    \/ FinishFileFails
    \/ Return

Spec == Init /\ [][Next]_vars

\* --------------------------------------------------------------- MergeSpec
InjectedDocs == SeqsUpTo(InjectedNodes, MaxInjected) \ { <<>> }

MergeInit ==
    /\ model_children \in SeqsUpTo(ModelNodes, MaxModelChildren)
    /\ metadata_xml \in InjectedDocs
    /\ keep_existing \in BOOLEAN
    /\ title_value \in { None, Some(StemWithSuffix) }
    /\ pass = 0
    /\ merged = <<>>
    /\ remerged = <<>>
    /\ pc = "merge"
    /\ meta_file = [status |-> "parsed", root |-> "v1", children |-> metadata_xml]
    /\ title = (title_value # None)
    /\ n_files = 0
    /\ file_idx = 0
    /\ input = <<>>
    /\ file_number = 0
    /\ output = <<>>
    /\ writer = "None"
    /\ opened = 0
    /\ created = 0

\* one call of update_xml_and_copy on the drawn model
Merge ==
    /\ pass = 0
    /\ pc = "merge"
    /\ LET r == update_xml_and_copy(model_children, metadata_xml, keep_existing,
                                    title_value)
       IN  IF r.panicked
           THEN /\ pc' = "panicked_in_update"
                /\ UNCHANGED << pass, merged >>
           ELSE /\ merged' \in r.outs
                /\ pass' = 1
                /\ pc' = pc
    /\ UNCHANGED << meta_file, metadata_xml, keep_existing, title, title_value,
                    n_files, file_idx, input, file_number, output, writer,
                    opened, created, model_children, remerged >>

\* a second run over the merged model: same metadata document,
\* --keep-existing, no --title
Remerge ==
    /\ pass = 1
    /\ pc = "merge"
    /\ LET r == update_xml_and_copy(merged, metadata_xml, TRUE, None)
       IN  IF r.panicked
           THEN /\ pc' = "panicked_in_update"
                /\ UNCHANGED << pass, remerged >>
           ELSE /\ remerged' \in r.outs
                /\ pass' = 2
                /\ pc' = pc
    /\ UNCHANGED << meta_file, metadata_xml, keep_existing, title, title_value,
                    n_files, file_idx, input, file_number, output, writer,
                    opened, created, model_children, merged >>

MergeNext == Merge \/ Remerge

MergeSpec == MergeInit /\ [][MergeNext]_vars

\* ------------------------------------------------- reading a child list
IsOther(child) == ~IsMetadata(child)

\* the metadata block and the remaining children of a root
Block(children) == SelectSeq(children, IsMetadata)

Others(children) == SelectSeq(children, IsOther)

\* the metadata elements carrying the key k, in document order
Named(children, k) == SelectSeq(children, LAMBDA c : IsMetadata(c) /\ c.name = k)

Keys(children) == { children[i].name : i \in { j \in 1..Len(children) : IsMetadata(children[j]) } }

Range(s) == { s[i] : i \in 1..Len(s) }

Last(s) == s[Len(s)]

UniqueNames(children) == \A k \in Keys(children) : Len(Named(children, k)) = 1

TitleOverrides(k) == title_value # None /\ k = "Title"

\* ------------------------------------------------------------- claims
\* C1: for every key carried both by a metadata element of the model and by
\* an entry of the injected document, and not replaced by the title
\* override, the output holds exactly one entry with that key: the injected
\* one when keep_existing is false, the model's one when it is true.
C1_CollisionPrecedence ==
    pass >= 1 =>
        \A k \in Keys(model_children) \cap Keys(metadata_xml) :
            ~TitleOverrides(k) =>
                Named(merged, k) =
                    << Last(Named(IF keep_existing THEN model_children
                                                   ELSE metadata_xml, k)) >>

C1_Witness ==
    /\ pass >= 1
    /\ keep_existing
    /\ title_value = None
    /\ Elem("metadata", "Title", "Old") \in Range(model_children)
    /\ metadata_xml = << Elem("metadata", "Title", "New") >>
    /\ Elem("metadata", "Title", "Old") \in Range(merged)

\* the scenario of C2
C2_Scenario ==
    /\ pass >= 1
    /\ model_children = << Geom, Elem("metadata", "Author", "A"),
                           Elem("metadata", "Title", "Old") >>
    /\ metadata_xml = << Elem("metadata", "Title", "New") >>
    /\ ~keep_existing
    /\ title_value = None

\* C2 as stated: in the scenario the metadata block is [Title="New"] only,
\* the Author entry being dropped; with keep_existing=false only injected
\* entries survive.
C2_OnlyInjectedSurvive ==
    C2_Scenario => Block(merged) = << Elem("metadata", "Title", "New") >>

\* C2 as amended: in the scenario the output is Author="A" and Title="New"
\* (in either order) followed by geom; with keep_existing=false a model
\* entry whose key no injected entry and no title override carries is kept.
C2_UnmatchedModelEntriesSurvive ==
    /\ C2_Scenario =>
            /\ Len(merged) = 3
            /\ { merged[1], merged[2] } =
                    { Elem("metadata", "Author", "A"), Elem("metadata", "Title", "New") }
            /\ merged[3] = Geom
    /\ (pass >= 1 /\ ~keep_existing) =>
            \A k \in Keys(model_children) \ Keys(metadata_xml) :
                ~TitleOverrides(k) =>
                    Named(merged, k) = << Last(Named(model_children, k)) >>

C2_Witness == C2_Scenario /\ merged[1] = Elem("metadata", "Author", "A")

\* C3: for a metadata document D with unique names and a model without
\* metadata, merging with keep_existing=false and no title override yields
\* a metadata block that is exactly D's entries in D's order.
C3_InjectedOrder ==
    ( /\ pass >= 1
      /\ Keys(model_children) = {}
      /\ UniqueNames(metadata_xml)
      /\ ~keep_existing
      /\ title_value = None )
        => Block(merged) = metadata_xml

\* C4: the output child list is metadata entries first, then exactly the
\* model's non-metadata children in their original order.
C4_MetadataThenOthers ==
    pass >= 1 =>
        \E n \in 0..Len(merged) :
            /\ \A i \in 1..n : IsMetadata(merged[i])
            /\ SubSeq(merged, n + 1, Len(merged)) = Others(model_children)

C4_Witness ==
    /\ pass >= 1
    /\ model_children = << Blank, Elem("metadata", "Author", "A"), Geom >>
    /\ Len(merged) = 4

\* C5: with a title override the output holds exactly one entry named
\* Title, the synthesized one, whatever the two sources hold.
C5_SingleTitle ==
    (pass >= 1 /\ title_value # None) =>
        Named(merged, "Title") = << title_element(title_value[1]) >>

C5_Witness ==
    /\ pass >= 1
    /\ title_value # None
    /\ keep_existing
    /\ Len(Named(model_children, "Title")) = 2
    /\ Len(Named(metadata_xml, "Title")) = 2

\* C10: a second merge of the same metadata document into the merged model
\* (keep_existing=true, no title override) leaves the metadata block
\* unchanged, same entries, same values, same order, and leaves the
\* non-metadata children unchanged.
C10_SecondPassIdentical == (pass = 2 /\ title_value = None) => remerged = merged

\* what the second merge does keep: the entries and their values as a set,
\* and the other children; only the order of the block is open
SecondPassSameEntries ==
    pass = 2 =>
        /\ Len(Block(remerged)) = Len(Block(merged))
        /\ Range(Block(remerged)) = Range(Block(merged))
        /\ Others(remerged) = Others(merged)
        /\ Len(remerged) = Len(merged)

\* ---------------------------------------------------- claims about main
\* the destination of the current file was finished by output.finish()
Panicked == pc \in { "panicked", "panicked_in_update" }

Transcoded == writer = "Finalized" /\ ~Panicked

IsUnsafe(entry) == enclosed_name(entry.name) = None

\* the documents update_xml_and_copy can write for an entry
MergedFiles(entry) ==
    { merged_file(entry, children) :
        children \in update_xml_and_copy(entry.data.children, metadata_xml,
                                         keep_existing, title_value).outs }

InvalidMetadata ==
    \/ meta_file.status # "parsed"
    \/ meta_file.root # "v1"
    \/ \E i \in 1..Len(meta_file.children) : ~IsMetadata(meta_file.children[i])
    \/ meta_file.children = << >>
    \/ \E i \in 1..Len(meta_file.children) : ~HasNameAttr(meta_file.children[i])

\* C8: an invalid metadata document is detected before any input archive
\* is opened and before any output file is created.
C8_ValidatedBeforeArchives ==
    InvalidMetadata => (opened = 0 /\ created = 0)

\* C9: the destination is finalized only after every source entry has
\* been processed; a failure while streaming never leaves it finalized.
C9_FinalizedOnlyWhenComplete ==
    writer = "Finalized" =>
        /\ file_number = Len(input)
        /\ Len(output) = Len(input)

====
